---- MODULE Spec2Model ----
(***************************************************************************)
(* Model of mintty's child.c: the child process supervisor (child_create,  *)
(* child_kill, child_write, child_send, child_resize, child_fork), the     *)
(* signal handlers (sigchld, sigexit), the I/O loop (child_proc) and the   *)
(* path expansion of child_conv_path.                                      *)
(*                                                                         *)
(* The main thread is modelled statement by statement (mpc); the SIGCHLD   *)
(* handler interrupts it between any two statements and runs one iteration *)
(* of its reap loop per step (hpc); sigexit interrupts either (sx).  The   *)
(* operating system (the child, the detached duplicate, the pty, the host  *)
(* notification channel) is the environment.                               *)
(***************************************************************************)
EXTENDS Integers, Sequences, FiniteSets, TLC

(* ------------------------------------------------------------------ *)
(* Bounds of the model                                                  *)
(* ------------------------------------------------------------------ *)
MaxBytes == 2      \* bytes the child writes to the pty
MaxInputs == 1     \* inputs offered: calls of child_write, child_send, staged pastes
MaxForks == 1      \* detached duplicates started by child_fork
MaxPathLen == 4    \* characters of a path given to child_conv_path

(* ------------------------------------------------------------------ *)
(* Program constants                                                    *)
(* ------------------------------------------------------------------ *)
SIGHUP == 1
SIGINT == 2
SIGQUIT == 3
SIGILL == 4
SIGTRAP == 5
SIGABRT == 6
SIGFPE == 8
SIGKILL == 9
SIGBUS == 10
SIGSEGV == 11
SIGSYS == 12
SIGPIPE == 13
SIGTERM == 15
IntBits == 32      \* width of int: error_sigs and 1<<WTERMSIG(status)
BufSize == 4096    \* static char buf[4096]
NoStatus == -1     \* static int status = -1
NoFd == -1         \* pty_fd = -1, log_fd = -1
PtyFd == 3         \* descriptor forkpty stores in pty_fd
WinFd == 4         \* open("/dev/windows")
LogFd == 5         \* open(log_file)
ChildPid == 101    \* forkpty's result in the parent
DupPid == 102      \* the process made by child_fork's fork()
FgPid == 103       \* a process group tcgetpgrp(pty_fd) reports
EAGAIN == 11
ENOMEM == 12

Policies == {"NEVER", "DEFAULT", "ERROR"}

(* ------------------------------------------------------------------ *)
(* Wait statuses (<sys/wait.h>)                                         *)
(* ------------------------------------------------------------------ *)
ExitedWith(code) == code * 256
KilledBy(sig) == sig
DumpedBy(sig) == sig + 128

WIFEXITED(w) == (w % 256) = 0
WIFSIGNALED(w) == (w % 128) > 0 /\ (w % 128) < 127
WEXITSTATUS(w) == (w \div 256) % 256
WTERMSIG(w) == w % 128

\* exit statuses and terminating signals the tracked child may end with
ChildStatuses == {ExitedWith(0), ExitedWith(1), ExitedWith(255), KilledBy(SIGHUP)}
\* every status waitpid can report for a terminated process
MaxExitCode == 255
MaxSig == 64
AllStatuses ==
  {ExitedWith(c) : c \in 0..MaxExitCode} \cup
  {KilledBy(sg) : sg \in 1..MaxSig} \cup {DumpedBy(sg) : sg \in 1..MaxSig}
\* statuses of the detached duplicate
DupStatuses == {ExitedWith(0), ExitedWith(255)}

(* int arithmetic: a 32-bit int as the set of its one bits               *)
(* ------------------------------------------------------------------ *)
BitAnd(a, b) == a \cap b

\* outcomes of 1 << n on a 32-bit int.  For n >= 32 the shift is undefined:
\* "mask" is the x86 result (count taken modulo 32), "zero" the result of a
\* target that shifts the bit out.
ShiftOutcomes == {"mask", "zero"}
Shl1(n, ub) ==
  IF n < IntBits THEN {n}
  ELSE IF ub = "mask" THEN {n % IntBits} ELSE {}

\* 1<<SIGILL | 1<<SIGTRAP | ... | 1<<SIGSYS
error_sigs ==
  Shl1(SIGILL, "mask") \cup Shl1(SIGTRAP, "mask") \cup Shl1(SIGABRT, "mask") \cup
  Shl1(SIGFPE, "mask") \cup Shl1(SIGBUS, "mask") \cup Shl1(SIGSEGV, "mask") \cup
  Shl1(SIGPIPE, "mask") \cup Shl1(SIGSYS, "mask")

(* ------------------------------------------------------------------ *)
(* sigchld: which result of waitpid is claimed, and the exit/hold policy *)
(* ------------------------------------------------------------------ *)
\* a slip: a result is taken for the tracked child's whenever none is tracked
WrongProcess_UntrackedClaims(chld_pid, p) == chld_pid > 0 /\ chld_pid # p /\ p # 0

\* a slip: every process waitpid returns taken for the tracked child
WrongProcess_NeverWrong(chld_pid, p) == FALSE

\* "the wrong process died": the result is discarded and waitpid retried
WrongProcess(chld_pid, p) == chld_pid > 0 /\ chld_pid # p

\* a slip: DEFAULT holding the session after a death from a signal
DefaultExits_HoldsSignals(s) == ~WIFSIGNALED(s) /\ WEXITSTATUS(s) # 255

\* hold == HOLD_DEFAULT
DefaultExits(s) == WIFSIGNALED(s) \/ WEXITSTATUS(s) # 255

\* hold == HOLD_ERROR; ub is the outcome of the shift when it is undefined
ErrorExits(s, ub) ==
  IF WIFEXITED(s) THEN WEXITSTATUS(s) = 0
  ELSE BitAnd(error_sigs, Shl1(WTERMSIG(s), ub)) # {}

\* a slip: the policy decided without looking at killed
ExitNow_IgnoresKilled(h, k, s, ub) ==
  IF h = "NEVER" THEN TRUE
  ELSE IF h = "DEFAULT" THEN DefaultExits(s)
  ELSE IF h = "ERROR" THEN ErrorExits(s, ub)
  ELSE FALSE

\* a slip: HOLD_NEVER treated like a policy that holds
ExitNow_HoldsOnNever(h, k, s, ub) ==
  IF k THEN TRUE
  ELSE IF h = "DEFAULT" THEN DefaultExits(s)
  ELSE IF h = "ERROR" THEN ErrorExits(s, ub)
  ELSE FALSE

\* "Decide whether we want to exit now or later"
ExitNow(h, k, s, ub) ==
  IF k \/ h = "NEVER" THEN TRUE
  ELSE IF h = "DEFAULT" THEN DefaultExits(s)
  ELSE IF h = "ERROR" THEN ErrorExits(s, ub)
  ELSE FALSE

(* ------------------------------------------------------------------ *)
(* child_proc: the status line, and what term_write receives            *)
(* ------------------------------------------------------------------ *)
Entry(kind, val) == [k |-> kind, v |-> val]

\* the calls of term_write made for status s: none, "<cmd>: Exit <code>" or
\* "<cmd>: <strsignal>"
StatusMessage(s) ==
  IF WIFEXITED(s)
  THEN IF WEXITSTATUS(s) # 0 /\ WEXITSTATUS(s) # 255
       THEN <<Entry("exit", <<WEXITSTATUS(s)>>)>> ELSE <<>>
  ELSE IF WIFSIGNALED(s) THEN <<Entry("signal", <<WTERMSIG(s)>>)>>
  ELSE <<>>

\* a slip: the status line written while the pty is still open
StatusPending_IgnoresPty(st, fd) == st # NoStatus

\* if (status != -1 && pty_fd == -1)
StatusPending(st, fd) == st # NoStatus /\ fd = NoFd

Min(a, b) == IF a < b THEN a ELSE b

(* ------------------------------------------------------------------ *)
(* State                                                                *)
(* ------------------------------------------------------------------ *)
VARIABLES
  hold,        \* configuration: the termination policy
  log_file,    \* configuration: TRUE when a log file is configured
  home,        \* char *home
  cp,          \* the last call of child_conv_path: its argument, what it found, its result
  pid,         \* static pid_t pid
  status,      \* static int status
  killed,      \* static bool killed
  pty_fd,      \* static int pty_fd
  log_fd,      \* static int log_fd
  win_fd,      \* static int win_fd
  mpc,         \* position of the main thread
  ret,         \* where child_kill returns to
  loc,         \* locals of the running function
  hpc,         \* position of the SIGCHLD handler: "idle" or "loop"
  sx,          \* the frame of sigexit: position, sig, what it read and sent
  handlers,    \* TRUE once child_create has installed the signal handlers
  sigpend,     \* a SIGCHLD is pending
  proc,        \* the supervisor process: "running", "exited", "signaled"
  exit_code,   \* argument of exit(), or the signal that ended the process
  exit_by,     \* the function that ended the process
  cstate,      \* the tracked child: "none", "running", "zombie", "reaped"
  drun,        \* detached duplicates running
  dzomb,       \* detached duplicates terminated and not yet reaped
  nforks,      \* calls of child_fork made
  ptybuf,      \* bytes written by the child and not yet read
  produced,    \* number of bytes the child has written
  winmsg,      \* the host notification descriptor is readable
  paste,       \* term.paste_buffer: chunks staged
  ninputs,     \* inputs offered so far
  nwrites,     \* write() calls made on the pty
  out,         \* the calls of term_write, in order
  log,         \* the calls of write(log_fd, ...), in order
  rd,          \* the bytes read() has returned from the pty, in order
  evals,       \* times the exit/hold policy was evaluated
  cap,         \* the reap that claimed the tracked child
  hist         \* what has happened so far: child_proc returned, a reap after the
               \* claim, calls of child_resize that did and did not reach the pty

progvars == <<pid, status, killed, pty_fd, log_fd, win_fd>>
cfgvars == <<hold, log_file, home>>
ctlvars == <<mpc, ret, loc, hpc, handlers>>
procvars == <<proc, exit_code, exit_by>>
envvars == <<sigpend, cstate, drun, dzomb, nforks, ptybuf, produced, winmsg, paste, ninputs, nwrites>>
histvars == <<out, log, rd, evals, cap, hist>>
vars == <<progvars, cfgvars, cp, sx, ctlvars, procvars, envvars, histvars>>

NoLocals == [pb |-> FALSE, seen |-> 0, res |-> 0, fp |-> 0, errno |-> 0, pend |-> FALSE,
             sel |-> 0, fds_pty |-> FALSE, fds_win |-> FALSE, len |-> 0, buf |-> <<>>]
\* a null pointer is the empty set, a string the set holding it
NoCwds == [q \in {FgPid, ChildPid} |-> {}]
\* child_conv_path not called.  tcg, cwds, pw: what tcgetpgrp, realpath of
\* /proc/<pid>/cwd and getpwnam (its pw_dir) returned; exp: exp_path
NoConv == [done |-> FALSE, path |-> <<>>, tcg |-> 0, cwds |-> NoCwds, pw |-> {},
           exp |-> <<>>]
\* sigexit not entered.  over: sigexit interrupted sigchld; seen: pid as tested;
\* to, fwd: the arguments of its first kill(); dfl: disposition of sig reset
NoExit == [pc |-> "idle", sig |-> 0, over |-> FALSE, seen |-> 0, to |-> 0, fwd |-> 0,
           dfl |-> FALSE]
NoHist == [returned |-> FALSE, later |-> FALSE, ioctls |-> 0, noops |-> 0]
NoCap == [done |-> FALSE, status |-> NoStatus, killed |-> FALSE, ub |-> "mask",
          exits |-> FALSE]

Init ==
  /\ hold \in Policies
  /\ log_file \in BOOLEAN
  /\ home = <<"/", "h">> /\ cp = NoConv
  /\ pid = 0 /\ status = NoStatus /\ killed = FALSE
  /\ pty_fd = NoFd /\ log_fd = NoFd /\ win_fd = 0
  /\ mpc = "init" /\ ret = "idle" /\ loc = NoLocals
  /\ hpc = "idle" /\ handlers = FALSE /\ sx = NoExit
  /\ sigpend = FALSE
  /\ proc = "running" /\ exit_code = 0 /\ exit_by = "none"
  /\ cstate = "none" /\ drun = 0 /\ dzomb = 0 /\ nforks = 0
  /\ ptybuf = <<>> /\ produced = 0
  /\ winmsg = FALSE /\ paste = 0 /\ ninputs = 0 /\ nwrites = 0
  /\ out = <<>> /\ log = <<>> /\ rd = <<>>
  /\ evals = 0 /\ cap = NoCap /\ hist = NoHist

Running == proc = "running"
\* the main thread runs when the process lives and no handler is executing
Main(pc) == Running /\ hpc = "idle" /\ sx.pc = "idle" /\ mpc = pc
\* sigchld runs unless sigexit has interrupted it
InChld == Running /\ hpc = "loop" /\ (sx.pc = "idle" \/ ~sx.over)
\* sigexit runs unless sigchld has interrupted it
InExit(pc) == Running /\ sx.pc = pc /\ (sx.over \/ hpc = "idle")

(* ------------------------------------------------------------------ *)
(* child_create                                                         *)
(* ------------------------------------------------------------------ *)
\* signal(SIGHUP, SIG_IGN) ... signal(SIGCHLD, sigchld)
child_create_signals ==
  /\ Main("init")
  /\ handlers' = TRUE
  /\ mpc' = "cc_fork"
  /\ UNCHANGED <<progvars, cfgvars, cp, sx, ret, loc, hpc, procvars, envvars, histvars>>

\* forkpty(&pty_fd, 0, 0, winp): the child exists and pty_fd is set before
\* the result is assigned to pid
child_create_forkpty ==
  /\ Main("cc_fork")
  /\ \/ /\ cstate' = "running"
        /\ pty_fd' = PtyFd
        /\ loc' = [loc EXCEPT !.fp = ChildPid]
     \/ /\ \E e \in {EAGAIN, ENOMEM} : loc' = [loc EXCEPT !.fp = -1, !.errno = e]
        /\ UNCHANGED <<cstate, pty_fd>>
  /\ mpc' = "cc_store"
  /\ UNCHANGED <<pid, status, killed, log_fd, win_fd, cfgvars, cp, sx, ret, hpc, handlers,
                 procvars, sigpend, drun, dzomb, nforks, ptybuf, produced, winmsg,
                 paste, ninputs, nwrites, histvars>>

\* pid = <result of forkpty>
child_create_store ==
  /\ Main("cc_store")
  /\ pid' = loc.fp
  /\ mpc' = "cc_branch"
  /\ UNCHANGED <<status, killed, pty_fd, log_fd, win_fd, cfgvars, cp, sx, ret, loc, hpc,
                 handlers, procvars, envvars, histvars>>

\* a slip: the rebase hint left out
child_create_branch_NoHint ==
  /\ Main("cc_branch")
  /\ IF pid < 0
     THEN /\ pid' = 0
          /\ out' = out \o <<Entry("err_fork", <<loc.errno>>)>>
     ELSE UNCHANGED <<pid, out>>
  /\ mpc' = "cc_open"
  /\ UNCHANGED <<status, killed, pty_fd, log_fd, win_fd, cfgvars, cp, sx, ret, loc, hpc,
                 handlers, procvars, envvars, log, rd, evals, cap, hist>>

\* if (pid < 0) { pid = 0; error(...); rebase hint } else parent: fcntl, utmp
child_create_branch ==
  /\ Main("cc_branch")
  /\ IF pid < 0
     THEN /\ pid' = 0
          /\ out' = out \o <<Entry("err_fork", <<loc.errno>>)>>
                        \o (IF loc.errno = EAGAIN THEN <<Entry("rebase", <<>>)>> ELSE <<>>)
     ELSE UNCHANGED <<pid, out>>
  /\ mpc' = "cc_open"
  /\ UNCHANGED <<status, killed, pty_fd, log_fd, win_fd, cfgvars, cp, sx, ret, loc, hpc,
                 handlers, procvars, envvars, log, rd, evals, cap, hist>>

\* win_fd = open("/dev/windows"); if (log_file) log_fd = open(log_file, ...)
child_create_open ==
  /\ Main("cc_open")
  /\ win_fd' = WinFd
  /\ IF log_file
     THEN \/ log_fd' = LogFd /\ UNCHANGED out
          \/ log_fd' = -1 /\ out' = out \o <<Entry("err_log", <<ENOMEM>>)>>
     ELSE UNCHANGED <<log_fd, out>>
  /\ mpc' = "idle"
  /\ UNCHANGED <<pid, status, killed, pty_fd, cfgvars, cp, sx, ret, loc, hpc, handlers,
                 procvars, envvars, log, rd, evals, cap, hist>>

(* ------------------------------------------------------------------ *)
(* The operating system                                                 *)
(* ------------------------------------------------------------------ *)
\* the child writes a byte to its terminal; byte i has the value i
ChildWrites ==
  /\ Running /\ cstate = "running" /\ produced < MaxBytes
  /\ produced' = produced + 1
  /\ ptybuf' = Append(ptybuf, produced + 1)
  /\ UNCHANGED <<progvars, cfgvars, cp, sx, ctlvars, procvars, sigpend, cstate, drun, dzomb,
                 nforks, winmsg, paste, ninputs, nwrites, histvars>>

\* the child terminates; its status is observed by waitpid
ChildDies ==
  /\ Running /\ cstate = "running"
  /\ cstate' = "zombie"
  /\ sigpend' = TRUE
  /\ UNCHANGED <<progvars, cfgvars, cp, sx, ctlvars, procvars, drun, dzomb, nforks, ptybuf,
                 produced, winmsg, paste, ninputs, nwrites, histvars>>

\* a detached duplicate terminates
DupDies ==
  /\ Running /\ drun > 0
  /\ drun' = drun - 1 /\ dzomb' = dzomb + 1
  /\ sigpend' = TRUE
  /\ UNCHANGED <<progvars, cfgvars, cp, sx, ctlvars, procvars, cstate, nforks, ptybuf,
                 produced, winmsg, paste, ninputs, nwrites, histvars>>

\* the host posts a notification
HostNotify ==
  /\ Running /\ ~winmsg
  /\ winmsg' = TRUE
  /\ UNCHANGED <<progvars, cfgvars, cp, sx, ctlvars, procvars, sigpend, cstate, drun, dzomb,
                 nforks, ptybuf, produced, paste, ninputs, nwrites, histvars>>

(* ------------------------------------------------------------------ *)
(* sigchld                                                              *)
(* ------------------------------------------------------------------ *)
\* delivery of SIGCHLD: the handler interrupts the main thread
sigchld_enter ==
  /\ Running /\ handlers /\ sigpend /\ hpc = "idle"
  /\ hpc' = "loop"
  /\ sigpend' = FALSE
  /\ UNCHANGED <<progvars, cfgvars, cp, sx, mpc, ret, loc, handlers, procvars, cstate, drun,
                 dzomb, nforks, ptybuf, produced, winmsg, paste, ninputs, nwrites,
                 histvars>>

\* what follows waitpid's result (chld_pid, chld_status) in one pass of the loop
sigchld_claim(chld_pid, chld_status, ub) ==
  IF WrongProcess(chld_pid, pid)
  THEN \* continue
       /\ hist' = [hist EXCEPT !.later = cap.done]
       /\ UNCHANGED <<pid, status, hpc, procvars, evals, cap>>
  ELSE IF chld_pid <= 0
  THEN \* break; errno = saved_errno; signal(sig, sigchld)
       /\ hpc' = "idle"
       /\ UNCHANGED <<pid, status, procvars, evals, cap, hist>>
  ELSE \* pid = 0; status = chld_status; exit(0) or go on
       /\ pid' = 0
       /\ status' = chld_status
       /\ evals' = evals + 1
       /\ cap' = [done |-> TRUE, status |-> chld_status, killed |-> killed, ub |-> ub,
                  exits |-> ExitNow(hold, killed, chld_status, ub)]
       /\ IF ExitNow(hold, killed, chld_status, ub)
          THEN proc' = "exited" /\ exit_code' = 0 /\ exit_by' = "sigchld"
          ELSE UNCHANGED procvars
       /\ UNCHANGED <<hpc, hist>>

\* what one pass of for (;;) leaves alone
sigchld_frame ==
  UNCHANGED <<killed, pty_fd, log_fd, win_fd, cfgvars, cp, sx, mpc, ret, loc, handlers,
              sigpend, drun, nforks, ptybuf, produced, winmsg, paste, ninputs,
              nwrites, out, log, rd>>

\* one pass of for (;;): waitpid(-1, &chld_status, WNOHANG) returns the tracked
\* child, which ended with one of `statuses`
sigchld_reap(statuses) ==
  /\ InChld
  /\ cstate = "zombie"
  /\ cstate' = "reaped"
  /\ \E st \in statuses, ub \in ShiftOutcomes :
       /\ (WTERMSIG(st) < IntBits => ub = "mask")
       /\ sigchld_claim(ChildPid, st, ub)
  /\ UNCHANGED dzomb
  /\ sigchld_frame

sigchld_child == sigchld_reap(ChildStatuses)
sigchld_child_any == sigchld_reap(AllStatuses)

\* one pass: waitpid returns a detached duplicate
sigchld_other ==
  /\ InChld
  /\ dzomb > 0
  /\ dzomb' = dzomb - 1
  /\ \E st \in DupStatuses : sigchld_claim(DupPid, st, "mask")
  /\ UNCHANGED cstate
  /\ sigchld_frame

\* one pass: waitpid was interrupted (chld_pid == -1 && errno == EINTR): continue
sigchld_eintr ==
  /\ InChld
  /\ UNCHANGED vars

\* one pass: nothing to reap, waitpid returns 0, or -1 with ECHILD
sigchld_none ==
  /\ InChld
  /\ cstate # "zombie" /\ dzomb = 0
  /\ \E r \in {0, -1} : sigchld_claim(r, 0, "mask")
  /\ UNCHANGED <<cstate, dzomb>>
  /\ sigchld_frame

(* ------------------------------------------------------------------ *)
(* sigexit                                                              *)
(* ------------------------------------------------------------------ *)
\* signal(SIGINT, sigexit); signal(SIGTERM, sigexit); signal(SIGQUIT, sigexit)
ExitSignals == {SIGINT, SIGTERM, SIGQUIT}

\* a slip: the signal received passed on to the child
ForwardedSignal_Received(sig) == sig

\* the signal sigexit(sig) sends to the child's process group
ForwardedSignal(sig) == SIGHUP

\* delivery of SIGINT, SIGTERM or SIGQUIT: sigexit interrupts the main thread
\* or sigchld
sigexit_enter ==
  /\ Running /\ handlers /\ sx.pc = "idle"
  /\ \E sig \in ExitSignals :
       sx' = [NoExit EXCEPT !.pc = "test", !.sig = sig, !.over = (hpc = "loop")]
  /\ UNCHANGED <<progvars, cfgvars, cp, ctlvars, procvars, envvars, histvars>>

\* if (pid)
sigexit_test ==
  /\ InExit("test")
  /\ sx' = [sx EXCEPT !.pc = (IF pid # 0 THEN "kill" ELSE "dfl"), !.seen = pid]
  /\ UNCHANGED <<progvars, cfgvars, cp, ctlvars, procvars, envvars, histvars>>

\* kill(-pid, SIGHUP): pid is an ordinary static, the call uses the value tested
\* or the value pid has now
sigexit_kill ==
  /\ InExit("kill")
  /\ \E target \in {sx.seen, pid} :
       sx' = [sx EXCEPT !.pc = "dfl", !.to = target, !.fwd = ForwardedSignal(sx.sig)]
  /\ UNCHANGED <<progvars, cfgvars, cp, ctlvars, procvars, envvars, histvars>>

\* signal(sig, SIG_DFL)
sigexit_dfl ==
  /\ InExit("dfl")
  /\ sx' = [sx EXCEPT !.pc = "raise", !.dfl = TRUE]
  /\ UNCHANGED <<progvars, cfgvars, cp, ctlvars, procvars, envvars, histvars>>

\* kill(getpid(), sig) with the default disposition: the process is terminated
sigexit_raise ==
  /\ InExit("raise") /\ sx.dfl
  /\ sx' = [sx EXCEPT !.pc = "done"]
  /\ proc' = "signaled" /\ exit_code' = sx.sig /\ exit_by' = "sigexit"
  /\ UNCHANGED <<progvars, cfgvars, cp, ctlvars, envvars, histvars>>

\* delivery of SIGHUP after signal(SIGHUP, SIG_IGN): nothing happens
sighup_ignored ==
  /\ Running /\ handlers
  /\ UNCHANGED vars

(* ------------------------------------------------------------------ *)
(* child_kill                                                           *)
(* ------------------------------------------------------------------ *)
Exit0(by) == proc' = "exited" /\ exit_code' = 0 /\ exit_by' = by

\* the signal child_kill sends
KillSignal(point_blank) == IF point_blank THEN SIGKILL ELSE SIGHUP

\* a slip: point_blank not looked at once the signal was delivered
KillExits_OnFailureOnly(r, point_blank) == r < 0

\* after kill() returned r: exit(0), or go on to killed = true
KillExits(r, point_blank) == r < 0 \/ point_blank

\* entry of child_kill(point_blank); `to` is where its caller goes on
EnterKill(point_blank, to) ==
  /\ mpc' = "k_test"
  /\ ret' = to
  /\ loc' = [NoLocals EXCEPT !.pb = point_blank]

\* a slip: kill() attempted without looking at pid first
child_kill_test_SkipsTest ==
  /\ Main("k_test")
  /\ mpc' = "k_kill"
  /\ loc' = [loc EXCEPT !.seen = pid]
  /\ UNCHANGED procvars
  /\ UNCHANGED <<progvars, cfgvars, cp, sx, ret, hpc, handlers, envvars, histvars>>

\* if (!pid ...) exit(0)
child_kill_test ==
  /\ Main("k_test")
  /\ IF pid = 0
     THEN Exit0("child_kill") /\ mpc' = "k_exit" /\ UNCHANGED loc
     ELSE /\ mpc' = "k_kill"
          /\ loc' = [loc EXCEPT !.seen = pid]
          /\ UNCHANGED procvars
  /\ UNCHANGED <<progvars, cfgvars, cp, sx, ret, hpc, handlers, envvars, histvars>>

\* kill(-pid, point_blank ? SIGKILL : SIGHUP) < 0 || point_blank.  pid is an
\* ordinary static: the call uses the value tested before or the value pid has
\* now.  kill(0, sig) signals the supervisor's own process group, where SIGHUP
\* is ignored and SIGKILL ends the supervisor.
child_kill_kill ==
  /\ Main("k_kill")
  /\ \E target \in {loc.seen, pid} :
       IF target = 0
       THEN IF KillSignal(loc.pb) = SIGKILL
            THEN /\ proc' = "signaled" /\ exit_code' = SIGKILL /\ exit_by' = "child_kill"
                 /\ mpc' = "k_exit"
                 /\ UNCHANGED loc
            ELSE /\ loc' = [loc EXCEPT !.res = 0]
                 /\ IF KillExits(0, loc.pb)
                    THEN Exit0("child_kill") /\ mpc' = "k_exit"
                    ELSE mpc' = "k_set" /\ UNCHANGED procvars
       ELSE \E r \in {0, -1} :
              /\ loc' = [loc EXCEPT !.res = r]
              /\ IF KillExits(r, loc.pb)
                 THEN Exit0("child_kill") /\ mpc' = "k_exit"
                 ELSE mpc' = "k_set" /\ UNCHANGED procvars
  /\ UNCHANGED <<progvars, cfgvars, cp, sx, ret, hpc, handlers, envvars, histvars>>

\* killed = true; return
child_kill_set ==
  /\ Main("k_set")
  /\ killed' = TRUE
  /\ mpc' = ret
  /\ ret' = "idle"
  /\ loc' = NoLocals
  /\ UNCHANGED <<pid, status, pty_fd, log_fd, win_fd, cfgvars, cp, sx, hpc, handlers,
                 procvars, envvars, histvars>>

(* ------------------------------------------------------------------ *)
(* child_write, child_send, child_fork                                  *)
(* ------------------------------------------------------------------ *)
\* a slip: the write attempted on a closed descriptor instead of child_kill
child_write_WritesClosed(to) ==
  /\ nwrites' = nwrites + 1
  /\ mpc' = to
  /\ UNCHANGED <<ret, loc>>

\* if (pty_fd >= 0) write(pty_fd, buf, len); else child_kill(false);
\* `to` is where the caller goes on
child_write(to) ==
  IF pty_fd >= 0
  THEN /\ nwrites' = nwrites + 1
       /\ mpc' = to
       /\ UNCHANGED <<ret, loc>>
  ELSE /\ EnterKill(FALSE, to)
       /\ UNCHANGED nwrites

\* term_reset_screen(); if (term.echoing) term_write(buf, len); child_write(buf, len)
child_send(to) ==
  /\ \E echoing \in BOOLEAN :
       out' = IF echoing THEN Append(out, Entry("echo", <<>>)) ELSE out
  /\ child_write(to)

\* the paste buffer after term_send_paste has sent a chunk
PasteFlushed(p) == p - 1

\* the caller sends input with child_write
Call_child_write ==
  /\ Main("idle") /\ ninputs < MaxInputs
  /\ ninputs' = ninputs + 1
  /\ child_write("idle")
  /\ UNCHANGED <<progvars, cfgvars, cp, sx, hpc, handlers, procvars, sigpend, cstate, drun,
                 dzomb, nforks, ptybuf, produced, winmsg, paste, histvars>>

\* the caller sends input with child_send
Call_child_send ==
  /\ Main("idle") /\ ninputs < MaxInputs
  /\ ninputs' = ninputs + 1
  /\ child_send("idle")
  /\ UNCHANGED <<progvars, cfgvars, cp, sx, hpc, handlers, procvars, sigpend, cstate, drun,
                 dzomb, nforks, ptybuf, produced, winmsg, paste, log, rd, evals, cap, hist>>

\* the caller calls child_kill(point_blank)
Call_child_kill ==
  /\ Main("idle") \/ Main("init")
  /\ \E point_blank \in BOOLEAN : EnterKill(point_blank, "idle")
  /\ UNCHANGED <<progvars, cfgvars, cp, sx, hpc, handlers, procvars, envvars, histvars>>

\* if (fork() == 0) { ... exec; exit(255) }: nothing changes in the parent
child_fork ==
  /\ Main("idle") /\ nforks < MaxForks
  /\ nforks' = nforks + 1
  /\ \/ drun' = drun + 1
     \/ UNCHANGED drun          \* fork() failed
  /\ UNCHANGED <<progvars, cfgvars, cp, sx, ctlvars, procvars, sigpend, cstate, dzomb, ptybuf,
                 produced, winmsg, paste, ninputs, nwrites, histvars>>

\* a slip: the ioctl issued whatever pty_fd is
child_resize_Unguarded ==
  /\ Main("idle") /\ ninputs < MaxInputs
  /\ ninputs' = ninputs + 1
  /\ hist' = [hist EXCEPT !.ioctls = @ + 1]
  /\ UNCHANGED <<progvars, cfgvars, cp, sx, ctlvars, procvars, sigpend, cstate, drun, dzomb,
                 nforks, ptybuf, produced, winmsg, paste, nwrites, out, log, rd,
                 evals, cap>>

\* if (pty_fd >= 0) ioctl(pty_fd, TIOCSWINSZ, winp)
child_resize ==
  /\ Main("idle") /\ ninputs < MaxInputs
  /\ ninputs' = ninputs + 1
  /\ hist' = IF pty_fd >= 0 THEN [hist EXCEPT !.ioctls = @ + 1]
             ELSE [hist EXCEPT !.noops = @ + 1]
  /\ UNCHANGED <<progvars, cfgvars, cp, sx, ctlvars, procvars, sigpend, cstate, drun, dzomb,
                 nforks, ptybuf, produced, winmsg, paste, nwrites, out, log, rd,
                 evals, cap>>

\* the terminal stages a paste while the caller handles its events
StagePaste ==
  /\ Main("idle") /\ ninputs < MaxInputs
  /\ ninputs' = ninputs + 1
  /\ paste' = paste + 1
  /\ UNCHANGED <<progvars, cfgvars, cp, sx, ctlvars, procvars, sigpend, cstate, drun, dzomb,
                 nforks, ptybuf, produced, winmsg, nwrites, histvars>>

\* the caller reads the host notification it was handed
CallerReadsNotification ==
  /\ Main("idle") /\ winmsg
  /\ winmsg' = FALSE
  /\ UNCHANGED <<progvars, cfgvars, cp, sx, ctlvars, procvars, sigpend, cstate, drun, dzomb,
                 nforks, ptybuf, produced, paste, ninputs, nwrites, histvars>>

(* ------------------------------------------------------------------ *)
(* child_proc                                                           *)
(* ------------------------------------------------------------------ *)
Call_child_proc ==
  /\ Main("idle")
  /\ mpc' = "p_paste"
  /\ UNCHANGED <<progvars, cfgvars, cp, sx, ret, loc, hpc, handlers, procvars, envvars, histvars>>

\* if (term.paste_buffer) term_send_paste();
proc_paste ==
  /\ Main("p_paste")
  /\ IF paste > 0
     THEN /\ paste' = PasteFlushed(paste)
          /\ child_write("p_test")
     ELSE /\ mpc' = "p_test"
          /\ UNCHANGED <<paste, nwrites, ret, loc>>
  /\ UNCHANGED <<progvars, cfgvars, cp, sx, hpc, handlers, procvars, sigpend, cstate, drun,
                 dzomb, nforks, ptybuf, produced, winmsg, ninputs, histvars>>

\* if (status != -1 && pty_fd == -1)
proc_test ==
  /\ Main("p_test")
  /\ mpc' = IF StatusPending(status, pty_fd) THEN "p_msg" ELSE "p_select"
  /\ loc' = [loc EXCEPT !.pend = StatusPending(status, pty_fd)]
  /\ UNCHANGED <<progvars, cfgvars, cp, sx, ret, hpc, handlers, procvars, envvars, histvars>>

\* format the status line; if (s) term_write(s, l)
proc_msg ==
  /\ Main("p_msg")
  /\ out' = out \o StatusMessage(status)
  /\ mpc' = "p_clear"
  /\ UNCHANGED <<progvars, cfgvars, cp, sx, ret, loc, hpc, handlers, procvars, envvars,
                 log, rd, evals, cap, hist>>

\* a slip: the pending status left in place
Cleared_Kept(st) == st

\* the value assigned to status at the end of the block
Cleared(st) == NoStatus

\* status = -1
proc_clear ==
  /\ Main("p_clear")
  /\ status' = Cleared(status)
  /\ mpc' = "p_select"
  /\ UNCHANGED <<pid, killed, pty_fd, log_fd, win_fd, cfgvars, cp, sx, ret, loc, hpc, handlers,
                 procvars, envvars, histvars>>

\* the descriptors select() can report
PtyReadable == pty_fd >= 0 /\ (ptybuf # <<>> \/ cstate \in {"zombie", "reaped"})
WinReadable == winmsg

\* FD_SET(win_fd); if (pty_fd >= 0) FD_SET(pty_fd); select(...) > 0
proc_select ==
  /\ Main("p_select")
  /\ \/ /\ PtyReadable \/ WinReadable
        /\ loc' = [loc EXCEPT !.sel = (IF PtyReadable THEN 1 ELSE 0) +
                                       (IF WinReadable THEN 1 ELSE 0),
                              !.fds_pty = PtyReadable, !.fds_win = WinReadable]
        /\ mpc' = "p_read"
     \/ \* select was interrupted or failed: the loop starts over
        /\ loc' = [loc EXCEPT !.sel = -1]
        /\ mpc' = "p_paste"
  /\ UNCHANGED <<progvars, cfgvars, cp, sx, ret, hpc, handlers, procvars, envvars, histvars>>

\* if (pty_fd >= 0 && FD_ISSET(pty_fd, &fds)) len = read(pty_fd, buf, sizeof buf)
proc_read ==
  /\ Main("p_read")
  /\ IF pty_fd >= 0 /\ loc.fds_pty
     THEN /\ IF ptybuf # <<>>
             THEN \E n \in 1..Min(Len(ptybuf), BufSize) :
                    /\ loc' = [loc EXCEPT !.len = n, !.buf = SubSeq(ptybuf, 1, n)]
                    /\ ptybuf' = SubSeq(ptybuf, n + 1, Len(ptybuf))
                    /\ rd' = rd \o SubSeq(ptybuf, 1, n)
             ELSE /\ \E n \in {0, -1} : loc' = [loc EXCEPT !.len = n]
                  /\ UNCHANGED <<ptybuf, rd>>
          /\ mpc' = "p_disp"
     ELSE /\ mpc' = "p_win"
          /\ UNCHANGED <<loc, ptybuf, rd>>
  /\ UNCHANGED <<progvars, cfgvars, cp, sx, ret, hpc, handlers, procvars, sigpend, cstate, drun,
                 dzomb, nforks, produced, winmsg, paste, ninputs, nwrites, out, log,
                 evals, cap, hist>>

\* the bytes handed to term_write and to the log
Chunk(l) == l.buf

\* a slip: the chunk read in the pass where the host notification is also
\* ready is dropped and the function returns at once
proc_disp_DropsWhenHostReady ==
  /\ Main("p_disp")
  /\ IF loc.len > 0
     THEN /\ out' = IF loc.fds_win THEN out ELSE Append(out, Entry("data", Chunk(loc)))
          /\ mpc' = IF loc.fds_win THEN "p_win" ELSE "p_log"
          /\ UNCHANGED pty_fd
     ELSE /\ pty_fd' = NoFd
          /\ mpc' = "p_win"
          /\ UNCHANGED out
  /\ UNCHANGED <<pid, status, killed, log_fd, win_fd, cfgvars, cp, sx, ret, loc, hpc, handlers,
                 procvars, envvars, log, rd, evals, cap, hist>>

\* if (len > 0) term_write(buf, len) ... else pty_fd = -1
proc_disp ==
  /\ Main("p_disp")
  /\ IF loc.len > 0
     THEN /\ out' = Append(out, Entry("data", Chunk(loc)))
          /\ mpc' = "p_log"
          /\ UNCHANGED pty_fd
     ELSE /\ pty_fd' = NoFd
          /\ mpc' = "p_win"
          /\ UNCHANGED out
  /\ UNCHANGED <<pid, status, killed, log_fd, win_fd, cfgvars, cp, sx, ret, loc, hpc, handlers,
                 procvars, envvars, log, rd, evals, cap, hist>>

\* if (log_fd >= 0) write(log_fd, buf, len)
proc_log ==
  /\ Main("p_log")
  /\ log' = IF log_fd >= 0 THEN Append(log, Entry("data", Chunk(loc))) ELSE log
  /\ mpc' = "p_win"
  /\ UNCHANGED <<progvars, cfgvars, cp, sx, ret, loc, hpc, handlers, procvars, envvars,
                 out, rd, evals, cap, hist>>

\* a slip: returning whenever select() reported anything
WinSet_AnyReady(l) == l.sel > 0

\* if (FD_ISSET(win_fd, &fds)) return;
WinSet(l) == l.sel > 0 /\ l.fds_win

proc_win ==
  /\ Main("p_win")
  /\ mpc' = IF WinSet(loc) THEN "idle" ELSE "p_paste"
  /\ hist' = [hist EXCEPT !.returned = @ \/ WinSet(loc)]
  /\ loc' = NoLocals
  /\ UNCHANGED <<progvars, cfgvars, cp, sx, ret, hpc, handlers, procvars, envvars,
                 out, log, rd, evals, cap>>

(* ------------------------------------------------------------------ *)
(* child_conv_path: from the multibyte path to exp_path                 *)
(* ------------------------------------------------------------------ *)
\* a path is a sequence of characters; "a" and "u" stand for any others
PathChars == {"~", "/", "a", "u"}
Paths == UNION {[1..n -> PathChars] : n \in 0..MaxPathLen}
Homes == {<<>>, <<"/">>, <<"/", "h">>}
\* results of getpwnam(name)->pw_dir and of realpath("/proc/<pid>/cwd")
PwDirs == {{}, {<<"/", "u">>}}
CwdsOf == [{FgPid, ChildPid} -> {{}, {<<"/", "c">>}}]
TcgetpgrpResults == {-1, FgPid, ChildPid}

\* strchr(str, c): the index of the first c, 0 for a null result
Strchr(str, c) ==
  IF \E i \in 1..Len(str) : str[i] = c
  THEN CHOOSE i \in 1..Len(str) : str[i] = c /\ \A j \in 1..(i - 1) : str[j] # c
  ELSE 0

\* p ?: dflt
Elvis(p, dflt) == IF p = {} THEN dflt ELSE CHOOSE x \in p : TRUE

\* asform("%s/%s", base, rest)
Asform(base, rest) == base \o <<"/">> \o rest

\* name = path + 1, cut where *rest++ = 0 stored the terminator
TildeName(path) ==
  IF Strchr(path, "/") > 0 THEN SubSeq(path, 2, Strchr(path, "/") - 1)
  ELSE SubSeq(path, 2, Len(path))

\* a slip: the separator left at the head of rest
TildeRest_KeepsSlash(path) ==
  IF Strchr(path, "/") > 0 THEN SubSeq(path, Strchr(path, "/"), Len(path))
  ELSE <<>>

\* rest = strchr(path, '/'); if (rest) *rest++ = 0; else rest = ""
TildeRest(path) ==
  IF Strchr(path, "/") > 0 THEN SubSeq(path, Strchr(path, "/") + 1, Len(path))
  ELSE <<>>

\* if (!*name) base = home; else base = (pw ? pw->pw_dir : 0) ?: ""
TildeBase(name, h, pw) == IF name = <<>> THEN h ELSE Elvis(pw, <<>>)

\* fg_pid = (pty_fd >= 0) ? tcgetpgrp(pty_fd) : 0; if (fg_pid <= 0) fg_pid = pid
ForegroundPid(fd, tcg, p) ==
  IF (IF fd >= 0 THEN tcg ELSE 0) <= 0 THEN p ELSE tcg

\* cwd = 0; if (fg_pid > 0) cwd = realpath("/proc/<fg_pid>/cwd", 0)
Realpath(fg, cwds) == IF fg > 0 THEN cwds[fg] ELSE {}

\* exp_path, from the path and what the calls return
ExpPath(path, h, fd, p, tcg, cwds, pw) ==
  IF path # <<>> /\ path[1] = "~"
  THEN Asform(TildeBase(TildeName(path), h, pw), TildeRest(path))
  ELSE IF path = <<>> \/ path[1] # "/"
  THEN Asform(Elvis(Realpath(ForegroundPid(fd, tcg, p), cwds), h), path)
  ELSE path

\* one call of child_conv_path, up to exp_path
child_conv_path ==
  /\ Main("idle") /\ ~cp.done
  /\ \E path \in Paths, tcg \in TcgetpgrpResults, cwds \in CwdsOf, pw \in PwDirs :
       cp' = [done |-> TRUE, path |-> path, tcg |-> tcg, cwds |-> cwds, pw |-> pw,
              exp |-> ExpPath(path, home, pty_fd, pid, tcg, cwds, pw)]
  /\ UNCHANGED <<progvars, cfgvars, sx, ctlvars, procvars, envvars, histvars>>

(* ------------------------------------------------------------------ *)
(* The specification                                                    *)
(* ------------------------------------------------------------------ *)
\* the supervisor, the caller of child_proc and child_kill, and a child that
\* writes nothing to its terminal
NextBase ==
  \/ child_create_signals \/ child_create_forkpty \/ child_create_store
  \/ child_create_branch \/ child_create_open
  \/ ChildDies \/ HostNotify
  \/ sigchld_enter \/ sigchld_child \/ sigchld_eintr \/ sigchld_none
  \/ Call_child_kill \/ child_kill_test \/ child_kill_kill \/ child_kill_set
  \/ CallerReadsNotification
  \/ Call_child_proc \/ proc_paste \/ proc_test \/ proc_msg \/ proc_clear
  \/ proc_select \/ proc_read \/ proc_disp \/ proc_win

\* with the child's output
NextCore == NextBase \/ ChildWrites \/ proc_log

SpecCore == Init /\ [][NextCore]_vars

\* with input sent to the child and the window resized, no output
NextInput ==
  NextBase \/ Call_child_write \/ Call_child_send \/ StagePaste \/ child_resize

SpecInput == Init /\ [][NextInput]_vars

\* output and input together
Next == NextCore \/ Call_child_write \/ Call_child_send \/ StagePaste \/ child_resize

Spec == Init /\ [][Next]_vars

\* with detached duplicates started by child_fork, no output
NextFork == NextBase \/ child_fork \/ DupDies \/ sigchld_other

SpecFork == Init /\ [][NextFork]_vars

\* spawn, kill and reap alone, over every status the child can end with
NextPolicy ==
  \/ child_create_signals \/ child_create_forkpty \/ child_create_store
  \/ child_create_branch \/ child_create_open
  \/ ChildDies
  \/ sigchld_enter \/ sigchld_child_any \/ sigchld_eintr \/ sigchld_none
  \/ Call_child_kill \/ child_kill_test \/ child_kill_kill \/ child_kill_set

SpecPolicy == Init /\ [][NextPolicy]_vars

\* spawn and reap, with the termination signals delivered to the supervisor
NextExit ==
  \/ child_create_signals \/ child_create_forkpty \/ child_create_store
  \/ child_create_branch \/ child_create_open
  \/ ChildDies
  \/ sigchld_enter \/ sigchld_child \/ sigchld_eintr \/ sigchld_none
  \/ sigexit_enter \/ sigexit_test \/ sigexit_kill \/ sigexit_dfl \/ sigexit_raise
  \/ sighup_ignored

SpecExit == Init /\ [][NextExit]_vars

\* spawn, input, kill, reap and termination signals.  The main thread and
\* sigexit go on from one statement to the next, a pending SIGCHLD is delivered
\* and waitpid returns what there is to reap (weak fairness); when the child
\* dies, what the caller calls and which signals arrive is left open.
NextLive ==
  \/ child_create_signals \/ child_create_forkpty \/ child_create_store
  \/ child_create_branch \/ child_create_open
  \/ ChildDies
  \/ sigchld_enter \/ sigchld_child \/ sigchld_eintr \/ sigchld_none
  \/ Call_child_kill \/ child_kill_test \/ child_kill_kill \/ child_kill_set
  \/ Call_child_write
  \/ sigexit_enter \/ sigexit_test \/ sigexit_kill \/ sigexit_dfl \/ sigexit_raise

MainSteps ==
  \/ child_create_signals \/ child_create_forkpty \/ child_create_store
  \/ child_create_branch \/ child_create_open
  \/ child_kill_test \/ child_kill_kill \/ child_kill_set

SpecLive ==
  /\ Init /\ [][NextLive]_vars
  /\ WF_vars(MainSteps)
  /\ WF_vars(sigexit_test \/ sigexit_kill \/ sigexit_dfl \/ sigexit_raise)
  /\ WF_vars(sigchld_enter) /\ WF_vars(sigchld_child) /\ WF_vars(sigchld_none)

\* child_conv_path called in a session that is set up: any home, the child
\* tracked or not, the pty open or closed
InitPath ==
  /\ hold = "DEFAULT" /\ log_file = FALSE
  /\ home \in Homes /\ cp = NoConv
  /\ pid \in {0, ChildPid} /\ status = NoStatus /\ killed = FALSE
  /\ pty_fd \in {NoFd, PtyFd} /\ log_fd = NoFd /\ win_fd = WinFd
  /\ mpc = "idle" /\ ret = "idle" /\ loc = NoLocals
  /\ hpc = "idle" /\ handlers = TRUE /\ sx = NoExit
  /\ sigpend = FALSE
  /\ proc = "running" /\ exit_code = 0 /\ exit_by = "none"
  /\ cstate = (IF pid = ChildPid THEN "running" ELSE "none")
  /\ drun = 0 /\ dzomb = 0 /\ nforks = 0
  /\ ptybuf = <<>> /\ produced = 0
  /\ winmsg = FALSE /\ paste = 0 /\ ninputs = 0 /\ nwrites = 0
  /\ out = <<>> /\ log = <<>> /\ rd = <<>>
  /\ evals = 0 /\ cap = NoCap /\ hist = NoHist

NextPath == child_conv_path

SpecPath == InitPath /\ [][NextPath]_vars

TypeOK ==
  /\ pid \in {0, -1, ChildPid}
  /\ status \in {NoStatus} \cup AllStatuses
  /\ pty_fd \in {NoFd, PtyFd} /\ log_fd \in {NoFd, LogFd}
  /\ evals \in 0..1

(* ------------------------------------------------------------------ *)
(* Properties                                                           *)
(* ------------------------------------------------------------------ *)
\* sigchld has claimed the tracked child's status with killed false
Captured(policy) == cap.done /\ hold = policy /\ ~cap.killed
\* the handler's exit(0) ended the process
ExitedBySigchld == proc = "exited" /\ exit_code = 0 /\ exit_by = "sigchld"
DiedFromSignal(s) == WIFSIGNALED(s)
ExitedWithCode(s, c) == WIFEXITED(s) /\ WEXITSTATUS(s) = c
FaultSignals == {SIGILL, SIGTRAP, SIGABRT, SIGFPE, SIGBUS, SIGSEGV, SIGPIPE, SIGSYS}

\* C1: whenever sigchld claims the tracked child's status while killed is true
\* or the policy is NEVER, the process has exited with status 0 in that same
\* step, whatever the status and, when killed, whatever the policy.
C1_ExitOnKilledOrNever ==
  (cap.done /\ (cap.killed \/ hold = "NEVER")) => ExitedBySigchld

\* a kill was requested, the policy alone would have held the session (DEFAULT,
\* exit code 255), and the reap ended the process
C1_Witness ==
  /\ cap.done /\ cap.killed /\ hold = "DEFAULT"
  /\ cap.status = ExitedWith(255) /\ ExitedBySigchld

\* C2 as stated: under DEFAULT with no kill requested the process exits at the
\* reap unless the child died from a signal or exited with code 255.
C2_Original ==
  Captured("DEFAULT") =>
    (ExitedBySigchld <=>
       ~(DiedFromSignal(cap.status) \/ ExitedWithCode(cap.status, 255)))

\* C2 amended: under DEFAULT with no kill requested the process exits at the
\* reap unless the child exited normally with code 255; a death from a signal
\* exits at once like every other exit code.
C2_DefaultHoldsOnly255 ==
  Captured("DEFAULT") =>
    (ExitedBySigchld <=> ~ExitedWithCode(cap.status, 255))

\* DEFAULT, a death from a signal: the process exited at the reap
C2_Witness ==
  Captured("DEFAULT") /\ DiedFromSignal(cap.status) /\ ExitedBySigchld

\* C3 as stated: under ERROR with no kill requested the process exits at the
\* reap if and only if the child exited with code 0 or was terminated by one of
\* the fault signals.
C3_Original ==
  Captured("ERROR") =>
    (ExitedBySigchld <=>
       (ExitedWithCode(cap.status, 0) \/
        (DiedFromSignal(cap.status) /\ WTERMSIG(cap.status) \in FaultSignals)))

\* C4: child_kill(true) never returns: the call gets no further than its
\* test and its kill(), and once either has been executed the whole process
\* has ended, whatever the state before and wherever sigchld ran.
C4_PointBlankTerminates ==
  loc.pb =>
    /\ mpc \in {"k_test", "k_kill", "k_exit"}
    /\ (mpc = "k_exit" => proc # "running")

\* child_kill(true) with a running child: the signal was sent and exit(0) called
C4_Witness ==
  /\ loc.pb /\ mpc = "k_exit" /\ loc.seen = ChildPid
  /\ proc = "exited" /\ exit_by = "child_kill"

\* C5 as stated: child_kill(false) exits with status 0 when no child is tracked
\* or the signal cannot be delivered; otherwise it returns with killed set and
\* the process ends when sigchld reaps the child, wherever the SIGCHLD is
\* delivered relative to the call.
C5_Original ==
  /\ (mpc = "k_exit" /\ ~loc.pb) =>
       (proc = "exited" /\ exit_code = 0 /\ (loc.seen = 0 \/ loc.res < 0))
  /\ (mpc = "k_set") => (proc = "running" => loc.res = 0 /\ loc.seen # 0)
  /\ (killed /\ cap.done) => ExitedBySigchld

\* C6: the exit/hold policy is evaluated at most once; once sigchld has claimed
\* the tracked child's status, pid stays 0 and status keeps the recorded value
\* until child_proc clears it, through every further pass of the reap loop.
C6_ReapOnce ==
  /\ evals <= 1
  /\ cap.done => (pid = 0 /\ status \in {cap.status, NoStatus} /\ evals = 1)

\* the session is held and the death of a detached duplicate was discarded
\* after the claim, the recorded status still pending
C6_Witness ==
  /\ cap.done /\ Running /\ hist.later
  /\ status = cap.status /\ evals = 1

\* the entries of sq whose kind is in kinds, and their bytes in order
RECURSIVE SelectSeq2(_, _)
SelectSeq2(sq, kinds) ==
  IF sq = <<>> THEN <<>>
  ELSE IF Head(sq).k \in kinds THEN <<Head(sq)>> \o SelectSeq2(Tail(sq), kinds)
  ELSE SelectSeq2(Tail(sq), kinds)

RECURSIVE Flatten(_)
Flatten(sq) == IF sq = <<>> THEN <<>> ELSE Head(sq).v \o Flatten(Tail(sq))

\* what term_write and the log have received from the pty
Displayed == Flatten(SelectSeq2(out, {"data"}))
Logged == Flatten(log)
StatusLines == SelectSeq2(out, {"exit", "signal"})
\* the chunk read() has returned and the loop has not yet passed on
InHand(pcs) == IF mpc \in pcs /\ loc.len > 0 THEN loc.buf ELSE <<>>

\* C7: the chunks passed to term_write, in order, followed by the chunk the
\* loop holds between read() and term_write(), are exactly the bytes read from
\* the pty, in order, none lost and none twice; with a log open the same holds
\* of the bytes written to it, and without one nothing is written.  The bytes
\* read are the bytes the child wrote, in the order it wrote them.
C7_NoBytesDropped ==
  /\ Displayed \o InHand({"p_disp"}) = rd
  /\ log_fd >= 0 => Logged \o InHand({"p_disp", "p_log"}) = rd
  /\ log_fd < 0 => Logged = <<>>
  /\ rd \o ptybuf = [i \in 1..produced |-> i]

\* two chunks were read and passed on, the second in a pass where select()
\* reported the pty and the host notification together, with a log open
C7_Witness ==
  /\ mpc = "p_win" /\ loc.fds_pty /\ loc.fds_win /\ loc.len > 0
  /\ Len(SelectSeq2(out, {"data"})) >= 2
  /\ log_fd >= 0 /\ Displayed = rd /\ Logged = rd

\* C8: at most one status line is ever passed to term_write, and none while
\* the pty descriptor is open.
C8_AtMostOneStatusLine ==
  /\ Len(StatusLines) <= 1
  /\ StatusLines # <<>> => pty_fd = NoFd

\* a status line was written and the loop has come round to the test again
C8_Witness ==
  /\ Len(StatusLines) = 1 /\ mpc = "p_test" /\ pty_fd = NoFd /\ Running

\* the status line the specification gives for wait status s
ExpectedStatusLine(s) ==
  IF DiedFromSignal(s) THEN <<Entry("signal", <<WTERMSIG(s)>>)>>
  ELSE IF \E c \in (1..MaxExitCode) \ {255} : ExitedWithCode(s, c)
  THEN <<Entry("exit", <<WEXITSTATUS(s)>>)>>
  ELSE <<>>

AfterStatusBlock == {"p_select", "p_read", "p_disp", "p_log", "p_win"}

\* C9: the status block is entered only with a status pending and the pty
\* marked closed; what it writes is "Exit <code>" for an exit code other than
\* 0 and 255, the signal's description for a death from a signal, and nothing
\* for 0 and 255; the pass that entered it leaves status at -1; while the pty
\* is open the claimed status stays pending and no line is written.
C9_StatusLine ==
  /\ mpc \in {"p_msg", "p_clear"} =>
       (loc.pend /\ pty_fd = NoFd /\ status # NoStatus /\ status = cap.status)
  /\ (mpc \in AfterStatusBlock /\ loc.pend) =>
       (status = NoStatus /\ StatusLines = ExpectedStatusLine(cap.status))
  /\ StatusLines # <<>> =>
       (cap.done /\ pty_fd = NoFd /\ StatusLines = ExpectedStatusLine(cap.status))
  /\ (cap.done /\ pty_fd # NoFd) => (status = cap.status /\ StatusLines = <<>>)

\* the pass found exit code 1 pending with the pty closed, wrote "Exit 1" and
\* cleared the status
C9_Witness ==
  /\ mpc = "p_select" /\ loc.pend /\ cap.status = ExitedWith(1)
  /\ StatusLines = <<Entry("exit", <<1>>)>> /\ status = NoStatus

ProcPcs == {"p_paste", "p_test", "p_msg", "p_clear"} \cup AfterStatusBlock

\* C10: child_proc returns only from the end of a pass whose select() reported
\* the host notification descriptor, and such a pass always returns; between
\* that select() and the return the loop only handles the pty.  No step of
\* child_proc consumes the notification: it is still readable at the return.
C10_ReturnsOnHostNotification ==
  [][ /\ (mpc \in ProcPcs /\ mpc' = "idle") =>
           (mpc = "p_win" /\ loc.sel > 0 /\ loc.fds_win /\ winmsg /\ winmsg')
      /\ (mpc = "p_win" /\ loc.sel > 0 /\ loc.fds_win /\ mpc' # mpc) => mpc' = "idle"
      /\ (mpc \in ProcPcs /\ loc.sel > 0 /\ loc.fds_win) =>
           mpc \in {"p_read", "p_disp", "p_log", "p_win"}
      /\ (mpc \in ProcPcs /\ mpc' \in ProcPcs) => winmsg' \/ ~winmsg
    ]_vars

\* child_proc has returned, after passing pty data on, with the notification
\* still unread
C10_Witness ==
  /\ hist.returned /\ mpc = "idle" /\ winmsg /\ rd # <<>> /\ Displayed = rd

\* a step in which child_write is called: by the caller, through child_send, or
\* by the paste flush at the top of a pass
WriteStep ==
  \/ mpc = "idle" /\ ninputs' = ninputs + 1 /\ paste' = paste /\ hist' = hist
  \/ mpc = "p_paste" /\ paste > 0 /\ paste' # paste

\* C11: a call of child_write (direct, through child_send, or from the paste
\* flush) with the pty open writes once to the pty, leaves pid, status and
\* killed alone and goes on in its caller; with the pty not open it writes
\* nothing and does exactly what child_kill(false) does: it enters child_kill
\* with point_blank false, which exits with status 0 if no child is tracked and
\* otherwise goes on to kill() and, if it returns, has set killed.
C11_WriteOrKill ==
  [][ /\ WriteStep =>
           IF pty_fd >= 0
           THEN /\ nwrites' = nwrites + 1
                /\ UNCHANGED <<pid, status, killed, procvars>>
                /\ mpc' = (IF mpc = "idle" THEN "idle" ELSE "p_test")
           ELSE /\ nwrites' = nwrites
                /\ UNCHANGED <<pid, status, killed, procvars>>
                /\ mpc' = "k_test" /\ loc' = [NoLocals EXCEPT !.pb = FALSE]
                /\ ret' = (IF mpc = "idle" THEN "idle" ELSE "p_test")
      /\ (mpc = "k_test" /\ ~loc.pb /\ mpc' # mpc) =>
           IF pid = 0 THEN proc' = "exited" /\ exit_code' = 0
           ELSE mpc' = "k_kill" /\ proc' = "running"
      /\ (mpc = "k_set" /\ mpc' # mpc) => (killed' /\ mpc' = ret)
    ]_vars

\* the paste flush found the pty closed with the child not yet reaped and,
\* without writing, is in child_kill(false) after a delivered SIGHUP
C11_Witness ==
  /\ mpc = "k_set" /\ ret = "p_test" /\ ~loc.pb /\ loc.res = 0
  /\ pty_fd = NoFd /\ nwrites = 0 /\ paste = 0 /\ Running

\* sigexit has passed its kill()
AfterExitKill == sx.pc \in {"dfl", "raise", "done"}

\* C12 as stated: on a termination request for signal s the handler forwards s
\* itself to the tracked child's process group, restores the default
\* disposition of s and re-raises s, so that the supervisor ends by signal s.
C12_Original ==
  /\ (AfterExitKill /\ sx.seen # 0) => (sx.fwd = sx.sig /\ sx.to = sx.seen)
  /\ sx.pc \in {"raise", "done"} => sx.dfl
  /\ sx.pc = "done" => (proc = "signaled" /\ exit_code = sx.sig)

\* C12 amended: sigexit is entered for SIGINT, SIGTERM and SIGQUIT only (SIGHUP
\* is ignored); whatever the signal s received, what it sends is SIGHUP, to the
\* process group named by pid when pid was non-zero at its test (the group is
\* the one tested or, pid having been cleared by sigchld meanwhile, group 0),
\* and nothing otherwise; it then restores the default disposition of s and
\* re-raises s, which ends the supervisor by signal s; if the process ends
\* while sigexit is running otherwise, it is by sigchld's exit(0).
C12_ForwardsHangup ==
  /\ sx.sig \in {0} \cup ExitSignals
  /\ AfterExitKill =>
       IF sx.seen = 0 THEN sx.fwd = 0
       ELSE sx.fwd = SIGHUP /\ sx.to \in {sx.seen, 0}
  /\ sx.pc \in {"raise", "done"} => sx.dfl
  /\ sx.pc = "done" => (proc = "signaled" /\ exit_code = sx.sig /\ exit_by = "sigexit")
  /\ (sx.pc # "idle" /\ ~Running) => (sx.pc = "done" \/ ExitedBySigchld)

\* SIGINT arrived with the child tracked: SIGHUP went to the child's group and
\* the supervisor was ended by SIGINT
C12_Witness ==
  /\ sx.pc = "done" /\ sx.sig = SIGINT /\ sx.seen = ChildPid /\ sx.to = ChildPid
  /\ sx.fwd = SIGHUP /\ proc = "signaled" /\ exit_code = SIGINT

\* child_create has returned
Created == win_fd = WinFd

\* C13 as stated: in a session child_create has set up, the process exit is the
\* outcome of sigchld's policy evaluation, once reached nothing changes, and it
\* is eventually reached once the tracked child's status has been claimed.
C13_Original ==
  /\ []((~Running /\ Created) => ExitedBySigchld)
  /\ [][~Running => UNCHANGED vars]_vars
  /\ (cap.done ~> ~Running)

\* C13 amended: the process ends at most once, and once it has ended nothing
\* changes; it ends in sigchld's policy evaluation (exactly when the policy
\* says exit, with status 0), in child_kill, or by the signal sigexit raises;
\* a session the policy holds stays open.  With the child terminated while tracked and the policy NEVER
\* or a kill requested, the end is eventually reached.
C13_ExitAtMostOnce ==
  /\ [][~Running => UNCHANGED vars]_vars
  /\ [](~Running => exit_by \in {"sigchld", "child_kill", "sigexit"})
  /\ [](ExitedBySigchld <=> (cap.done /\ cap.exits))
  /\ [](cap.done => (cap.exits <=> ExitNow(hold, cap.killed, cap.status, cap.ub)))
  /\ ((cstate = "zombie" /\ pid = ChildPid /\ (hold = "NEVER" \/ killed)) ~> ~Running)

\* the policy held the session at the reap and a later child_kill ended it
C13_Witness ==
  /\ cap.done /\ ~cap.exits /\ proc = "exited" /\ exit_by = "child_kill"
  /\ exit_code = 0 /\ evals = 1

\* what term_write has received about the spawn and about the log file
ForkReport == SelectSeq2(out, {"err_fork", "rebase"})
LogReport == SelectSeq2(out, {"err_log"})
\* the report of a failed spawn with error e
FailedToFork(e) ==
  <<Entry("err_fork", <<e>>)>> \o (IF e = EAGAIN THEN <<Entry("rebase", <<>>)>> ELSE <<>>)

\* the outcomes of child_create
SpawnSucceeded == pid = ChildPid /\ pty_fd = PtyFd /\ ForkReport = <<>>
SpawnFailed ==
  /\ pid = 0 /\ pty_fd = NoFd /\ Running
  /\ \E e \in {EAGAIN, ENOMEM} : ForkReport = FailedToFork(e)
ReapedEarly ==
  /\ pid = 0 /\ pty_fd = PtyFd /\ ForkReport = <<>> /\ Running
  /\ cap.done /\ ~cap.exits /\ status = cap.status
\* a log file that could not be opened is reported, and only that
LogOutcome ==
  /\ Running
  /\ IF log_file /\ log_fd = NoFd THEN LogReport = <<Entry("err_log", <<ENOMEM>>)>>
     ELSE LogReport = <<>>
  /\ ~log_file => log_fd = NoFd

\* C14 as stated: when child_create returns, either the child is tracked with
\* the pty open and no spawn error displayed, or no child is tracked, the pty
\* is closed, the spawn error (with the rebase hint exactly for EAGAIN) has
\* been displayed and the process lives; a log file that cannot be opened is
\* reported and the session goes on without it.
C14_Original ==
  [][ (mpc = "cc_open" /\ mpc' = "idle") =>
        /\ (SpawnSucceeded' \/ SpawnFailed') /\ ~(SpawnSucceeded' /\ SpawnFailed')
        /\ LogOutcome'
    ]_vars

\* C14 amended: when child_create returns, exactly one of three holds: the
\* two outcomes above, or the child has already terminated and been claimed by
\* sigchld with the policy holding the session (no child tracked, status
\* recorded, pty open, no error displayed).
C14_CreateOutcomes ==
  [][ (mpc = "cc_open" /\ mpc' = "idle") =>
        /\ SpawnSucceeded' \/ SpawnFailed' \/ ReapedEarly'
        /\ ~(SpawnSucceeded' /\ SpawnFailed') /\ ~(SpawnSucceeded' /\ ReapedEarly')
        /\ ~(SpawnFailed' /\ ReapedEarly')
        /\ LogOutcome'
    ]_vars

\* child_create has returned after forkpty failed with EAGAIN and the log file
\* could not be opened: both reported, hint included, the process lives
C14_Witness ==
  /\ mpc = "idle" /\ Created /\ SpawnFailed /\ loc.errno = EAGAIN
  /\ out = FailedToFork(EAGAIN) \o <<Entry("err_log", <<ENOMEM>>)>>
  /\ log_fd = NoFd /\ log_file

\* C15: a call of child_fork changes none of pid, pty_fd, log_fd, win_fd,
\* status, killed; the pass of sigchld that reaps a detached duplicate,
\* whatever its status and whether or not a child is tracked, changes neither
\* pid nor status, evaluates no policy, does not end the process and writes
\* nothing; a status line is only ever the one of the tracked child's status.
C15_DuplicateIsInert ==
  [][ /\ nforks' # nforks => UNCHANGED <<progvars, procvars, evals, cap, out>>
      /\ dzomb' < dzomb =>
           /\ UNCHANGED <<progvars, procvars, evals, cap, out, log, cstate>>
           /\ hpc' = "loop"
      /\ StatusLines' # <<>> => (cap'.done /\ StatusLines' = ExpectedStatusLine(cap'.status))
    ]_vars

\* SIGCHLD for the duplicate arrived while the child runs: the handler has
\* reaped the duplicate and the child is still tracked, nothing evaluated
C15_Witness ==
  /\ hpc = "loop" /\ cstate = "running" /\ nforks = 1 /\ drun = 0 /\ dzomb = 0
  /\ pid = ChildPid /\ status = NoStatus /\ evals = 0 /\ Running

\* the base the specification gives for a relative path: the working directory
\* of the pty's foreground process group if there is one, else of the tracked
\* child if there is one, and home when there is neither or its directory
\* cannot be read
RelativeBase ==
  IF pty_fd >= 0 /\ cp.tcg > 0 THEN Elvis(cp.cwds[cp.tcg], home)
  ELSE IF pid > 0 THEN Elvis(cp.cwds[pid], home)
  ELSE home

\* C16: for every path p, "~/" p expands to what home "/" p expands to, which
\* is home "/" p; a path that starts with "/" is its own expansion; a path that
\* starts with neither is appended to the working directory of the pty's
\* foreground process group, else of the tracked child, else to home; and a
\* "~name" whose account lookup fails expands with an empty base.
C16_PathTranslation ==
  cp.done =>
    LET path == cp.path
        n == Len(cp.path)
    IN /\ (n >= 2 /\ path[1] = "~" /\ path[2] = "/") =>
            /\ cp.exp = ExpPath(home \o <<"/">> \o SubSeq(path, 3, n), home, pty_fd,
                                pid, cp.tcg, cp.cwds, cp.pw)
            /\ cp.exp = home \o <<"/">> \o SubSeq(path, 3, n)
       /\ (n >= 1 /\ path[1] = "/") => cp.exp = path
       /\ (n = 0 \/ (n >= 1 /\ path[1] \notin {"~", "/"})) =>
            cp.exp = RelativeBase \o <<"/">> \o path
       /\ (n >= 2 /\ path[1] = "~" /\ path[2] # "/" /\ cp.pw = {}) =>
            /\ Len(cp.exp) >= 1 /\ cp.exp[1] = "/"
            /\ \E i \in 2..(n + 1) :
                 /\ \A j \in 2..(i - 1) : path[j] # "/"
                 /\ i <= n => path[i] = "/"
                 /\ cp.exp = <<"/">> \o SubSeq(path, i + 1, n)

\* "~/a/" was expanded against home "/h"
C16_Witness ==
  /\ cp.done /\ home = <<"/", "h">> /\ cp.path = <<"~", "/", "a", "/">>
  /\ cp.exp = <<"/", "h", "/", "a", "/">>

\* C17: once child_proc has stored -1 in pty_fd it stays -1, and while it is
\* -1 nothing touches the pty: no write() by child_write, child_send or the
\* paste flush, no read(), no ioctl by child_resize, and select() waits on the
\* host notification descriptor alone.
C17_ClosedStaysClosed ==
  [][ /\ (pty_fd = NoFd /\ mpc # "cc_fork") => pty_fd' = NoFd
      /\ pty_fd = NoFd =>
           /\ nwrites' = nwrites /\ rd' = rd
           /\ hist'.ioctls = hist.ioctls
           /\ mpc' \notin {"p_disp", "p_log"}
      /\ (pty_fd = NoFd /\ mpc = "p_select" /\ mpc' = "p_read") =>
           (~loc'.fds_pty /\ loc'.fds_win /\ loc'.sel = 1)
    ]_vars

\* child_resize was called after the pty was read to its end and marked closed
C17_Witness ==
  /\ pty_fd = NoFd /\ cstate \in {"zombie", "reaped"} /\ hist.noops = 1
  /\ hist.ioctls = 0 /\ Running

\* C18 as stated: whenever waitpid has returned the tracked child, at whatever
\* point after forkpty created it, sigchld has claimed its status (pid reset,
\* status recorded, policy applied) and has not discarded it.
C18_Original ==
  cstate = "reaped" => (cap.done /\ evals = 1)

\* every byte the child has written
Written == [i \in 1..produced |-> i]

\* in a held session, once the pty has been read to its end, everything the
\* child wrote has reached term_write and, with a log open, the log
HeldSessionDrained ==
  (cap.done /\ ~cap.exits /\ pty_fd = NoFd) =>
    (Displayed = Written /\ (log_fd >= 0 => Logged = Written))

\* C19 as stated: when sigchld interrupts child_proc and its policy decision
\* ends the process, every byte the child wrote before it terminated has been
\* passed to term_write and, with a log open, written to the log; and in a held
\* session the same holds once the pty has been read to its end.
C19_Original ==
  /\ (ExitedBySigchld /\ mpc \in ProcPcs) =>
       (Displayed = Written /\ (log_fd >= 0 => Logged = Written))
  /\ HeldSessionDrained

\* C20: with no child tracked and the pty closed, a call of child_write (direct,
\* through child_send, or from the paste flush, which precedes the status
\* block) writes nothing and enters child_kill(false), whose first statement,
\* the next the main thread executes, is exit(0): nothing else happens in
\* between, pending status or not.  With no child tracked and the pty still
\* open the input is written to the pty and the process goes on.
C20_HeldSessionEndsOnInput ==
  [][ /\ (WriteStep /\ pid = 0 /\ pty_fd = NoFd) =>
           (mpc' = "k_test" /\ ~loc'.pb /\ nwrites' = nwrites /\ out' \in {out, Append(out, Entry("echo", <<>>))})
      /\ (mpc = "k_test" /\ pid = 0) =>
           /\ pid' = 0 /\ out' = out /\ status' = status
           /\ mpc' # mpc => (proc' = "exited" /\ exit_code' = 0 /\ exit_by' = "child_kill")
      /\ (WriteStep /\ pid = 0 /\ pty_fd >= 0) =>
           (nwrites' = nwrites + 1 /\ proc' = "running" /\ mpc' \in {"idle", "p_test"})
    ]_vars

\* the paste flush of a held session ended the process with status 0 while the
\* child's exit code 1 was still waiting to be reported
C20_Witness ==
  /\ proc = "exited" /\ exit_code = 0 /\ exit_by = "child_kill"
  /\ ret = "p_test" /\ ~loc.pb /\ pty_fd = NoFd
  /\ cap.done /\ status = ExitedWith(1) /\ StatusLines = <<>> /\ nwrites = 0

====
